---- MODULE Spec2Model ----
(***************************************************************************)
(* Model of bearaujus/bmemcache: a generic in-memory cache with per-entry  *)
(* expiration, composite keys joined by a separator, and an optional       *)
(* background sweep of expired entries.                                    *)
(*                                                                         *)
(* Strings are sequences of one-character strings, so that joining and     *)
(* splitting on the separator are computed as strings.Join / strings.Split *)
(* compute them.  Time is a discrete clock; the zero time.Time is 0 and    *)
(* the clock never reads 0.                                                *)
(***************************************************************************)
EXTENDS Integers, Sequences, FiniteSets, Bags, TLC

VARIABLES items, cacheKeySeparator, doneChan, doneOnce, cleaner, now, last,
          options, o, constructed, pc, entries, ptr, getter, lister

vars == <<items, cacheKeySeparator, doneChan, doneOnce, cleaner, now, last,
          options, o, constructed, pc, entries, ptr, getter, lister>>

(***************************************************************************)
(* Bounds of the model.                                                    *)
(***************************************************************************)
MaxTime == 3
MaxItems == 2

(***************************************************************************)
(* Inputs.                                                                 *)
(***************************************************************************)
EmptyString == << >>
\* Key parts: the empty string, a plain character and the character that is
\* also used as a separator.
Parts == {EmptyString, <<"a">>, <<"|">>}
\* Sequences of key parts: no part, one part, and two parts.
KeyArgs == {<< >>} \cup {<<p>> : p \in Parts}
             \cup {<<EmptyString, EmptyString>>, << <<"a">>, <<"a">> >>}
Separators == {EmptyString, <<"|">>}
ZeroValue == 0
Values == {ZeroValue, ZeroValue + 1}
Durations == {0 - 1, 0, 1}
ZeroTime == 0
\* time.Minute, in the unit of the clock.
Minute == 60
\* The intervals given to WithAutoCleanUp: negative, zero and positive.
Intervals == {0 - 1, 0, 1, Minute}
\* The goroutines that call Close.
Callers == {"A", "B"}
\* The goroutines that call Get while others write, and the key they and
\* the writers contend for.
Getters == {"G", "H"}
RaceKeyArgs == {<< <<"a">> >>}
\* The addresses of the cacheEntry values the map and the calls of Get in
\* progress can point to at one time; NilEntry is the nil pointer.
NilEntry == 0
Addrs == 1..(Cardinality(RaceKeyArgs) + Cardinality(Getters))

(***************************************************************************)
(* errors.go                                                               *)
(***************************************************************************)
ErrNil == "nil"
ErrNotFound == "not found"
ErrExpired == "expired"
\* The error of a prefix that matches no stored key.
ErrNoMatch == "no match"

(***************************************************************************)
(* utils.go: strings.Join / strings.Split and the key codec.               *)
(***************************************************************************)
RECURSIVE Join(_, _)
Join(elems, sep) ==
  IF Len(elems) = 0 THEN EmptyString
  ELSE IF Len(elems) = 1 THEN elems[1]
  ELSE elems[1] \o sep \o Join(Tail(elems), sep)

\* strings.Index: position of the first occurrence of sep in s, 0 if none.
Index(s, sep) ==
  LET hits == {i \in 1..(Len(s) - Len(sep) + 1) : SubSeq(s, i, i + Len(sep) - 1) = sep}
  IN IF hits = {} THEN 0 ELSE CHOOSE i \in hits : \A j \in hits : i <= j

\* strings.Split(s, sep): with an empty separator s is exploded into its
\* characters, otherwise s is cut at every occurrence of sep.
RECURSIVE Split(_, _)
Split(s, sep) ==
  IF Len(sep) = 0
    THEN [i \in 1..Len(s) |-> <<s[i]>>]
    ELSE LET m == Index(s, sep)
         IN IF m = 0 THEN <<s>>
            ELSE <<SubSeq(s, 1, m - 1)>> \o Split(SubSeq(s, m + Len(sep), Len(s)), sep)

generateCacheKey(separator, keys) ==
  IF Len(keys) = 0 THEN Join(<<EmptyString>>, separator)
  ELSE Join(keys, separator)

deGenerateCacheKey(separator, fullKey) ==
  IF Len(fullKey) = 0 THEN << >>
  ELSE Split(fullKey, separator)

generateEmptyData == ZeroValue

(***************************************************************************)
(* cacheEntry                                                              *)
(***************************************************************************)
\* Variant: the entry counts as expired at its expiration instant already.
isExpired_AtInstant(ce, t) == ce.Exp # ZeroTime /\ t >= ce.Exp

isExpired(ce, t) == ce.Exp # ZeroTime /\ t > ce.Exp

flush(ce) == [ce EXCEPT !.Data = generateEmptyData]

(***************************************************************************)
(* The map: a function from the encoded keys present to their entries.     *)
(***************************************************************************)
NoItems == [k \in {} |-> [Data |-> ZeroValue, Exp |-> ZeroTime]]

put(its, key, ce) == [k \in DOMAIN its \cup {key} |-> IF k = key THEN ce ELSE its[k]]

remove(its, ks) == [k \in DOMAIN its \ ks |-> its[k]]

(***************************************************************************)
(* Effects and results of the handlers of bmemCache, as functions of the   *)
(* map, the clock and the encoded key.                                     *)
(***************************************************************************)
\* Variant: an entry already present is kept.
SetWithExpItems_KeepExisting(its, t, data, duration, key) ==
  LET exp == IF duration > 0 THEN t + duration ELSE ZeroTime
  IN IF key \in DOMAIN its THEN its ELSE put(its, key, [Data |-> data, Exp |-> exp])

\* Variant: only a zero duration means no expiration.
SetWithExpItems_NegativeExpires(its, t, data, duration, key) ==
  LET exp == IF duration # 0 THEN t + duration ELSE ZeroTime
  IN put(its, key, [Data |-> data, Exp |-> exp])

SetWithExpItems(its, t, data, duration, key) ==
  LET exp == IF duration > 0 THEN t + duration ELSE ZeroTime
  IN put(its, key, [Data |-> data, Exp |-> exp])

GetResult(its, t, key) ==
  IF key \notin DOMAIN its THEN [val |-> generateEmptyData, err |-> ErrNotFound]
  ELSE IF isExpired(its[key], t) THEN [val |-> generateEmptyData, err |-> ErrExpired]
  ELSE [val |-> its[key].Data, err |-> ErrNil]

\* Variant: an expired entry is removed on access.
GetItems_Evict(its, t, key) ==
  IF key \in DOMAIN its /\ isExpired(its[key], t)
    THEN remove(its, {key})
    ELSE its

GetItems(its, t, key) ==
  IF key \in DOMAIN its /\ isExpired(its[key], t)
    THEN [its EXCEPT ![key] = flush(its[key])]
    ELSE its

DeleteResult(its, key) == IF key \notin DOMAIN its THEN ErrNotFound ELSE ErrNil

\* Variant: every key that starts with the given key is removed.
DeleteItems_Prefix(its, key) ==
  IF key \notin DOMAIN its THEN its
  ELSE remove(its, {k \in DOMAIN its : Len(k) >= Len(key) /\ SubSeq(k, 1, Len(key)) = key})

DeleteItems(its, key) == IF key \notin DOMAIN its THEN its ELSE remove(its, {key})

IsExistResult(its, key) == key \in DOMAIN its

\* Variant: expiry is reported as the error ErrExpired.
IsExpiredResult_AsError(its, t, key) ==
  IF key \notin DOMAIN its THEN [val |-> FALSE, err |-> ErrNotFound]
  ELSE IF isExpired(its[key], t) THEN [val |-> TRUE, err |-> ErrExpired]
  ELSE [val |-> FALSE, err |-> ErrNil]

IsExpiredResult(its, t, key) ==
  IF key \notin DOMAIN its THEN [val |-> FALSE, err |-> ErrNotFound]
  ELSE [val |-> isExpired(its[key], t), err |-> ErrNil]

\* Variant: a remaining time of zero is not yet expired.
TTLResult_Strict(its, t, key) ==
  IF key \notin DOMAIN its THEN [val |-> 0, err |-> ErrNotFound]
  ELSE IF its[key].Exp = ZeroTime THEN [val |-> 0 - 1, err |-> ErrNil]
  ELSE LET remaining == its[key].Exp - t
       IN IF remaining < 0 THEN [val |-> 0, err |-> ErrExpired]
          ELSE [val |-> remaining, err |-> ErrNil]

TTLResult(its, t, key) ==
  IF key \notin DOMAIN its THEN [val |-> 0, err |-> ErrNotFound]
  ELSE IF its[key].Exp = ZeroTime THEN [val |-> 0 - 1, err |-> ErrNil]
  ELSE LET remaining == its[key].Exp - t
       IN IF remaining <= 0 THEN [val |-> 0, err |-> ErrExpired]
          ELSE [val |-> remaining, err |-> ErrNil]

\* Keys(): one decoded key per map key, in map order (a bag of part sequences).
RECURSIVE KeysBag(_, _)
KeysBag(ks, separator) ==
  IF ks = {} THEN EmptyBag
  ELSE LET k == CHOOSE x \in ks : TRUE
       IN SetToBag({deGenerateCacheKey(separator, k)}) (+) KeysBag(ks \ {k}, separator)

KeysResult(its, separator) == KeysBag(DOMAIN its, separator)

\* Variant: a stored key must be longer than the prefix to match.
hasPrefix_Longer(existingKeyFrags, keys) ==
  /\ ~(Len(existingKeyFrags) <= Len(keys))
  /\ \A i \in 1..Len(keys) : keys[i] = existingKeyFrags[i]

\* The test of the loop of KeysFromPrefix: the decoded key is not shorter
\* than the prefix and agrees with it part by part.
hasPrefix(existingKeyFrags, keys) ==
  /\ ~(Len(existingKeyFrags) < Len(keys))
  /\ \A i \in 1..Len(keys) : keys[i] = existingKeyFrags[i]

\* The loop of KeysFromPrefix over the result of Keys().
RECURSIVE MatchBag(_, _, _)
MatchBag(ks, separator, keys) ==
  IF ks = {} THEN EmptyBag
  ELSE LET k == CHOOSE x \in ks : TRUE
           existingKeyFrags == deGenerateCacheKey(separator, k)
       IN (IF hasPrefix(existingKeyFrags, keys)
             THEN SetToBag({existingKeyFrags}) ELSE EmptyBag)
          (+) MatchBag(ks \ {k}, separator, keys)

\* The key that KeysFromPrefix hands to Get when it is called without key
\* parts: the encoded key, passed as one key part and encoded again.
noPartsKey(separator, keys) ==
  generateCacheKey(separator, <<generateCacheKey(separator, keys)>>)

\* Variant: without key parts, all keys are listed.
KeysFromPrefixResult_All(its, t, separator, keys) ==
  MatchBag(DOMAIN its, separator, keys)

KeysFromPrefixResult(its, t, separator, keys) ==
  IF Len(keys) = 0
    THEN IF GetResult(its, t, noPartsKey(separator, keys)).err # ErrNil
           THEN EmptyBag
           ELSE SetToBag({<< >>})
    ELSE MatchBag(DOMAIN its, separator, keys)

KeysFromPrefixItems(its, t, separator, keys) ==
  IF Len(keys) = 0
    THEN GetItems(its, t, noPartsKey(separator, keys))
    ELSE its

\* GetsFromPrefix: the keys that match the prefix (every key for the empty
\* prefix), the values of those that Get can read, and the error of a
\* prefix that matches no key.
listKeysWithPrefix(its, separator, prefixParts) ==
  {k \in DOMAIN its :
     LET parts == deGenerateCacheKey(separator, k)
     IN /\ Len(parts) >= Len(prefixParts)
        /\ \A i \in 1..Len(prefixParts) : parts[i] = prefixParts[i]}

RECURSIVE ValuesBag(_, _, _)
ValuesBag(ks, its, t) ==
  IF ks = {} THEN EmptyBag
  ELSE LET k == CHOOSE x \in ks : TRUE
           r == GetResult(its, t, k)
       IN (IF r.err = ErrNil THEN SetToBag({r.val}) ELSE EmptyBag)
          (+) ValuesBag(ks \ {k}, its, t)

\* Variant: the error is returned whenever no value could be read.
GetsFromPrefixResult_ErrorIfNoValue(its, t, separator, keys) ==
  LET ks == listKeysWithPrefix(its, separator, keys)
      vs == ValuesBag(ks, its, t)
  IN [vals |-> vs, err |-> IF vs = EmptyBag THEN ErrNoMatch ELSE ErrNil]

GetsFromPrefixResult(its, t, separator, keys) ==
  LET ks == listKeysWithPrefix(its, separator, keys)
  IN IF ks = {} THEN [vals |-> EmptyBag, err |-> ErrNoMatch]
     ELSE [vals |-> ValuesBag(ks, its, t), err |-> ErrNil]

\* Each matching entry is fetched with Get, which resets an expired value.
GetsFromPrefixItems(its, t, separator, keys) ==
  LET ks == listKeysWithPrefix(its, separator, keys)
  IN [k \in DOMAIN its |->
        IF k \in ks /\ isExpired(its[k], t) THEN flush(its[k]) ELSE its[k]]

\* The options of New and the option struct they are applied to.
WithAutoCleanUp(interval) ==
  [kind |-> "withAutoCleanUp", duration |-> interval, separator |-> EmptyString]

WithCacheKeySeparator(separator) ==
  [kind |-> "withCacheKeySeparator", duration |-> 0, separator |-> separator]

Options == {WithAutoCleanUp(d) : d \in Intervals}
             \cup {WithCacheKeySeparator(s) : s \in Separators}

\* New is called with no option, one option or two.
OptionLists == {<< >>} \cup {<<v>> : v \in Options}
                 \cup {<<v, w>> : v \in Options, w \in Options}

zeroOption ==
  [AutoCleanup |-> FALSE, AutoCleanupInterval |-> 0, CacheKeySeparator |-> EmptyString]

withAutoCleanUpApply(w, opt) ==
  [opt EXCEPT !.AutoCleanup = TRUE,
              !.AutoCleanupInterval = IF w.duration = 0 THEN Minute ELSE w.duration]

withCacheKeySeparatorApply(w, opt) ==
  [opt EXCEPT !.CacheKeySeparator = w.separator]

ApplyOption(v, opt) ==
  IF v.kind = "withAutoCleanUp" THEN withAutoCleanUpApply(v, opt)
  ELSE withCacheKeySeparatorApply(v, opt)

\* The loop of New over its options.
RECURSIVE ApplyAll(_, _)
ApplyAll(opts, opt) ==
  IF opts = << >> THEN opt ELSE ApplyAll(Tail(opts), ApplyOption(Head(opts), opt))

\* Variant: the function given to Do runs on every call.
DoRuns_Always(done) == TRUE
\* doneOnce.Do runs its function only if no call of Do has completed.
DoRuns(done) == ~done

\* Variant: the sweeper never takes the ticker's case.
Sweeping_Never(cl) == FALSE
\* The sweeper is in its loop, selecting on the ticker and on doneChan.
Sweeping(cl) == cl = "running"

\* Variant: the sweeper stays in its loop when it receives from doneChan.
afterDone_Continue(cl) == cl
\* The sweeper returns when it receives from doneChan.
afterDone(cl) == "stopped"

\* Variant: the map is left as it is.
ClearItems_Noop(its) == its

ClearItems(its) == NoItems

\* Variant: the sweep removes every entry that has an expiration instant.
autoCleanupItems_AllExpiring(its, t) ==
  remove(its, {k \in DOMAIN its : its[k].Exp # ZeroTime})

autoCleanupItems(its, t) == remove(its, {k \in DOMAIN its : isExpired(its[k], t)})

(***************************************************************************)
(* The record of the last call: the operation, its arguments and what it   *)
(* returned.                                                               *)
(***************************************************************************)
\* found records whether the map held the key (for Clear: any key, for a
\* sweep: an expired entry) when the call began.
\* Of the results, val is the value or duration returned, flag the boolean,
\* list the keys and vals the values, for the calls that return one.
Call(op, keys, data, duration, found, val, flag, list, err) ==
  [op |-> op, keys |-> keys, data |-> data, duration |-> duration,
   found |-> found, val |-> val, flag |-> flag, list |-> list,
   vals |-> EmptyBag, err |-> err]

NoCall(op) == Call(op, << >>, ZeroValue, 0, FALSE, ZeroValue, FALSE, EmptyBag, ErrNil)

\* The encoded key a call works on.
KeyOf(keys) == generateCacheKey(cacheKeySeparator, keys)

\* No call is in progress: the caller has taken the result of its last call.
Idle == last.op = "none"

(***************************************************************************)
(* The map as pointers: ptr gives the address the map holds for a key and  *)
(* entries the cacheEntry at an address, so that a call of Get in progress *)
(* can hold an entry the map no longer points to.  getter is the position  *)
(* and the local variables of each call of Get, lister those of the call   *)
(* of Keys.  Where calls are atomic the four stay as they are at the start.*)
(***************************************************************************)
NoPtr == [k \in {} |-> NilEntry]

NoGet == [pc |-> "idle", key |-> EmptyString, entry |-> NilEntry,
          val |-> ZeroValue, err |-> ErrNil]

NoKeys == [pc |-> "idle", n |-> 0, list |-> EmptyBag, unfilled |-> 0]

NoCallsInProgress ==
  /\ entries = NoItems
  /\ ptr = NoPtr
  /\ getter = [g \in Getters |-> NoGet]
  /\ lister = NoKeys

(***************************************************************************)
(* New                                                                     *)
(***************************************************************************)
Init ==
  /\ items = NoItems
  /\ cacheKeySeparator \in Separators
  /\ \E AutoCleanup \in BOOLEAN :
        /\ doneChan = IF AutoCleanup THEN "open" ELSE "nil"
        /\ cleaner = IF AutoCleanup THEN "running" ELSE "idle"
  /\ doneOnce = FALSE
  /\ now = 1
  /\ last = NoCall("none")
  /\ options = << >>
  /\ o = [AutoCleanup |-> doneChan # "nil",
          AutoCleanupInterval |-> IF doneChan # "nil" THEN Minute ELSE 0,
          CacheKeySeparator |-> cacheKeySeparator]
  /\ constructed = TRUE
  /\ pc = [c \in Callers |-> "idle"]
  /\ NoCallsInProgress

(***************************************************************************)
(* The operations of bmemCache.                                            *)
(***************************************************************************)
SetWithExp ==
  /\ Idle
  /\ \E data \in Values, duration \in Durations, keys \in KeyArgs :
    LET key == KeyOf(keys)
    IN /\ key \in DOMAIN items \/ Cardinality(DOMAIN items) < MaxItems
       /\ items' = SetWithExpItems(items, now, data, duration, key)
       /\ last' = Call("SetWithExp", keys, data, duration, key \in DOMAIN items,
                       ZeroValue, FALSE, EmptyBag, ErrNil)
       /\ UNCHANGED <<cacheKeySeparator, doneChan, doneOnce, cleaner, now,
                      options, o, constructed, pc,
                      entries, ptr, getter, lister>>

Set ==
  /\ Idle
  /\ \E data \in Values, keys \in KeyArgs :
    LET key == KeyOf(keys)
    IN /\ key \in DOMAIN items \/ Cardinality(DOMAIN items) < MaxItems
       /\ items' = SetWithExpItems(items, now, data, 0, key)
       /\ last' = Call("Set", keys, data, 0, key \in DOMAIN items,
                       ZeroValue, FALSE, EmptyBag, ErrNil)
       /\ UNCHANGED <<cacheKeySeparator, doneChan, doneOnce, cleaner, now,
                      options, o, constructed, pc,
                      entries, ptr, getter, lister>>

Get ==
  /\ Idle
  /\ \E keys \in KeyArgs :
    LET key == KeyOf(keys)
        r == GetResult(items, now, key)
    IN /\ items' = GetItems(items, now, key)
       /\ last' = Call("Get", keys, ZeroValue, 0, key \in DOMAIN items,
                       r.val, FALSE, EmptyBag, r.err)
       /\ UNCHANGED <<cacheKeySeparator, doneChan, doneOnce, cleaner, now,
                      options, o, constructed, pc,
                      entries, ptr, getter, lister>>

Delete ==
  /\ Idle
  /\ \E keys \in KeyArgs :
    LET key == KeyOf(keys)
    IN /\ items' = DeleteItems(items, key)
       /\ last' = Call("Delete", keys, ZeroValue, 0, key \in DOMAIN items,
                       ZeroValue, FALSE, EmptyBag, DeleteResult(items, key))
       /\ UNCHANGED <<cacheKeySeparator, doneChan, doneOnce, cleaner, now,
                      options, o, constructed, pc,
                      entries, ptr, getter, lister>>

Keys ==
  /\ Idle
  /\ last' = Call("Keys", << >>, ZeroValue, 0, FALSE,
                  ZeroValue, FALSE, KeysResult(items, cacheKeySeparator), ErrNil)
  /\ UNCHANGED <<items, cacheKeySeparator, doneChan, doneOnce, cleaner, now,
                 options, o, constructed, pc,
                 entries, ptr, getter, lister>>

IsExist ==
  /\ Idle
  /\ \E keys \in KeyArgs :
    LET key == KeyOf(keys)
    IN /\ last' = Call("IsExist", keys, ZeroValue, 0, key \in DOMAIN items,
                       ZeroValue, IsExistResult(items, key), EmptyBag, ErrNil)
       /\ UNCHANGED <<items, cacheKeySeparator, doneChan, doneOnce, cleaner, now,
                      options, o, constructed, pc,
                      entries, ptr, getter, lister>>

IsExpired ==
  /\ Idle
  /\ \E keys \in KeyArgs :
    LET key == KeyOf(keys)
        r == IsExpiredResult(items, now, key)
    IN /\ last' = Call("IsExpired", keys, ZeroValue, 0, key \in DOMAIN items,
                       ZeroValue, r.val, EmptyBag, r.err)
       /\ UNCHANGED <<items, cacheKeySeparator, doneChan, doneOnce, cleaner, now,
                      options, o, constructed, pc,
                      entries, ptr, getter, lister>>

TTL ==
  /\ Idle
  /\ \E keys \in KeyArgs :
    LET key == KeyOf(keys)
        r == TTLResult(items, now, key)
    IN /\ last' = Call("TTL", keys, ZeroValue, 0, key \in DOMAIN items,
                       r.val, FALSE, EmptyBag, r.err)
       /\ UNCHANGED <<items, cacheKeySeparator, doneChan, doneOnce, cleaner, now,
                      options, o, constructed, pc,
                      entries, ptr, getter, lister>>

KeysFromPrefix ==
  /\ Idle
  /\ \E keys \in KeyArgs :
       /\ items' = KeysFromPrefixItems(items, now, cacheKeySeparator, keys)
       /\ last' = Call("KeysFromPrefix", keys, ZeroValue, 0, KeyOf(keys) \in DOMAIN items,
                       ZeroValue, FALSE,
                       KeysFromPrefixResult(items, now, cacheKeySeparator, keys), ErrNil)
       /\ UNCHANGED <<cacheKeySeparator, doneChan, doneOnce, cleaner, now,
                      options, o, constructed, pc,
                      entries, ptr, getter, lister>>

GetsFromPrefix ==
  /\ Idle
  /\ \E keys \in KeyArgs :
       LET r == GetsFromPrefixResult(items, now, cacheKeySeparator, keys)
       IN /\ items' = GetsFromPrefixItems(items, now, cacheKeySeparator, keys)
          /\ last' = [Call("GetsFromPrefix", keys, ZeroValue, 0, KeyOf(keys) \in DOMAIN items,
                           ZeroValue, FALSE, EmptyBag, r.err)
                        EXCEPT !.vals = r.vals]
          /\ UNCHANGED <<cacheKeySeparator, doneChan, doneOnce, cleaner, now,
                         options, o, constructed, pc,
                         entries, ptr, getter, lister>>

Clear ==
  /\ Idle
  /\ items' = ClearItems(items)
  /\ last' = Call("Clear", << >>, ZeroValue, 0, DOMAIN items # {},
                  ZeroValue, FALSE, EmptyBag, ErrNil)
  /\ UNCHANGED <<cacheKeySeparator, doneChan, doneOnce, cleaner, now,
                 options, o, constructed, pc,
                 entries, ptr, getter, lister>>

\* Close: the first call sends the stop signal to the sweeper and closes
\* the channel; later calls find doneOnce spent.
Close ==
  /\ Idle
  /\ doneOnce' = TRUE
  /\ IF DoRuns(doneOnce) /\ doneChan # "nil"
       THEN doneChan' = "closed" /\ cleaner' = afterDone(cleaner)
       ELSE UNCHANGED <<doneChan, cleaner>>
  /\ last' = NoCall("Close")
  /\ UNCHANGED <<items, cacheKeySeparator, now, options, o, constructed, pc,
                 entries, ptr, getter, lister>>

\* One tick of the sweeper's ticker: the whole scan runs under the lock.
autoCleanup ==
  /\ Idle
  /\ Sweeping(cleaner)
  /\ items' = autoCleanupItems(items, now)
  /\ last' = Call("autoCleanup", << >>, ZeroValue, 0,
                  \E k \in DOMAIN items : isExpired(items[k], now),
                  ZeroValue, FALSE, EmptyBag, ErrNil)
  /\ UNCHANGED <<cacheKeySeparator, doneChan, doneOnce, cleaner, now,
                 options, o, constructed, pc,
                 entries, ptr, getter, lister>>

\* The passage of time.
Tick ==
  /\ Idle
  /\ now < MaxTime
  /\ now' = now + 1
  /\ last' = NoCall("Tick")
  /\ UNCHANGED <<items, cacheKeySeparator, doneChan, doneOnce, cleaner,
                 options, o, constructed, pc,
                 entries, ptr, getter, lister>>

\* The caller takes the result of the call it made.
Return ==
  /\ ~Idle
  /\ last' = NoCall("none")
  /\ UNCHANGED <<items, cacheKeySeparator, doneChan, doneOnce, cleaner, now,
                 options, o, constructed, pc,
                 entries, ptr, getter, lister>>

Next ==
  \/ SetWithExp
  \/ Set
  \/ Get
  \/ Delete
  \/ Keys
  \/ IsExist
  \/ IsExpired
  \/ TTL
  \/ Clear
  \/ Close
  \/ autoCleanup
  \/ Tick
  \/ Return

Spec == Init /\ [][Next]_vars

(***************************************************************************)
(* The cache as the prefix queries see it: entries are set and deleted,    *)
(* time passes, and keys and values are asked for by prefix.               *)
(***************************************************************************)
PrefixNext ==
  \/ SetWithExp
  \/ Delete
  \/ KeysFromPrefix
  \/ GetsFromPrefix
  \/ Tick
  \/ Return

PrefixSpec == Init /\ [][PrefixNext]_vars

(***************************************************************************)
(* New, step by step: the options are applied in order, the cache is made  *)
(* from the option struct, and the sweeper's goroutine starts its ticker.  *)
(***************************************************************************)
\* v.Apply(o) for the next option; last records the option applied.
Apply ==
  /\ ~constructed
  /\ options # << >>
  /\ o' = ApplyOption(Head(options), o)
  /\ options' = Tail(options)
  /\ last' = Call("Apply", << >>, ZeroValue, Head(options).duration, FALSE,
                  ZeroValue, Head(options).kind = "withAutoCleanUp", EmptyBag, ErrNil)
  /\ UNCHANGED <<items, cacheKeySeparator, doneChan, doneOnce, cleaner, now,
                 constructed, pc,
                 entries, ptr, getter, lister>>

\* The cache is made and, with AutoCleanup, the goroutine is launched.
New ==
  /\ ~constructed
  /\ options = << >>
  /\ constructed' = TRUE
  /\ items' = NoItems
  /\ cacheKeySeparator' = o.CacheKeySeparator
  /\ doneChan' = IF o.AutoCleanup THEN "open" ELSE "nil"
  /\ cleaner' = IF o.AutoCleanup THEN "starting" ELSE "idle"
  /\ last' = NoCall("none")
  /\ UNCHANGED <<doneOnce, now, options, o, pc,
                 entries, ptr, getter, lister>>

\* The goroutine makes its ticker: time.NewTicker panics unless the interval
\* is positive, and a panic in a goroutine ends the program.
StartSweeper ==
  /\ cleaner = "starting"
  /\ cleaner' = IF o.AutoCleanupInterval > 0 THEN "running" ELSE "panicked"
  /\ UNCHANGED <<items, cacheKeySeparator, doneChan, doneOnce, now, last,
                 options, o, constructed, pc,
                 entries, ptr, getter, lister>>

NewInit ==
  /\ items = NoItems
  /\ cacheKeySeparator = EmptyString
  /\ doneChan = "nil"
  /\ doneOnce = FALSE
  /\ cleaner = "idle"
  /\ now = 1
  /\ last = NoCall("none")
  /\ options \in OptionLists
  /\ o = zeroOption
  /\ constructed = FALSE
  /\ pc = [c \in Callers |-> "idle"]
  /\ NoCallsInProgress

\* Time passes during and after the construction, and the sweeper that has
\* started sweeps.
NewNext ==
  \/ Apply
  \/ New
  \/ StartSweeper
  \/ autoCleanup
  \/ Tick
  \/ Return

NewSpec == NewInit /\ [][NewNext]_vars

(***************************************************************************)
(* Close, step by step, for callers that run concurrently with each other, *)
(* with the sweeper and with the other operations.                         *)
(***************************************************************************)
\* The caller inside the function given to doneOnce.Do holds the mutex of
\* the Once.
OnceLocked == \E c \in Callers : pc[c] \in {"send", "close"}

\* A caller enters Close; it may do so again after it has returned.
CloseBegin(c) ==
  /\ constructed
  /\ pc[c] \in {"idle", "returned"}
  /\ pc' = [pc EXCEPT ![c] = "once"]
  /\ UNCHANGED <<items, cacheKeySeparator, doneChan, doneOnce, cleaner, now, last,
                 options, o, constructed,
                 entries, ptr, getter, lister>>

\* doneOnce.Do: a caller that finds the Once done returns; otherwise it
\* takes the mutex of the Once and runs the function, which has nothing to
\* do when doneChan is nil.
OnceDo(c) ==
  /\ pc[c] = "once"
  /\ IF ~DoRuns(doneOnce)
       THEN /\ pc' = [pc EXCEPT ![c] = "returned"]
            /\ UNCHANGED doneOnce
       ELSE /\ ~OnceLocked
            /\ IF doneChan = "nil"
                 THEN /\ pc' = [pc EXCEPT ![c] = "returned"]
                      /\ doneOnce' = TRUE
                 ELSE /\ pc' = [pc EXCEPT ![c] = "send"]
                      /\ UNCHANGED doneOnce
  /\ UNCHANGED <<items, cacheKeySeparator, doneChan, cleaner, now, last,
                 options, o, constructed,
                 entries, ptr, getter, lister>>

\* c.doneChan <- struct{}{}: the channel has no buffer, so the send completes
\* when the sweeper, in its select, receives; a send on a closed channel
\* panics.
CloseSend(c) ==
  /\ pc[c] = "send"
  /\ IF doneChan = "closed"
       THEN /\ pc' = [pc EXCEPT ![c] = "panicked"]
            /\ UNCHANGED cleaner
       ELSE /\ Sweeping(cleaner)
            /\ cleaner' = afterDone(cleaner)
            /\ pc' = [pc EXCEPT ![c] = "close"]
  /\ UNCHANGED <<items, cacheKeySeparator, doneChan, doneOnce, now, last,
                 options, o, constructed,
                 entries, ptr, getter, lister>>

\* close(c.doneChan), after which Do marks the Once done and unlocks it.
CloseChan(c) ==
  /\ pc[c] = "close"
  /\ doneChan' = "closed"
  /\ doneOnce' = TRUE
  /\ pc' = [pc EXCEPT ![c] = "returned"]
  /\ UNCHANGED <<items, cacheKeySeparator, cleaner, now, last,
                 options, o, constructed,
                 entries, ptr, getter, lister>>

\* The calls made while the callers of Close and the sweeper run: two keys,
\* entries that expire and entries that do not.
LifeKeyArgs == {<< >>, << <<"a">> >>}

LifeSetWithExp ==
  /\ SetWithExp
  /\ last'.keys \in LifeKeyArgs
  /\ last'.data = ZeroValue
  /\ last'.duration >= 0

LifeDelete == Delete /\ last'.keys \in LifeKeyArgs

\* The option lists of the caches in use: without a sweeper, and with a
\* sweeper whose ticker starts.
LifeOptionLists == {<< >>, <<WithAutoCleanUp(0)>>, <<WithAutoCleanUp(1)>>}

\* The cache New returns: the sweeper's goroutine is launched and has yet to
\* run.
LifeInit ==
  /\ \E opts \in LifeOptionLists : o = ApplyAll(opts, zeroOption)
  /\ options = << >>
  /\ constructed = TRUE
  /\ items = NoItems
  /\ cacheKeySeparator = o.CacheKeySeparator
  /\ doneChan = IF o.AutoCleanup THEN "open" ELSE "nil"
  /\ cleaner = IF o.AutoCleanup THEN "starting" ELSE "idle"
  /\ doneOnce = FALSE
  /\ now = 1
  /\ last = NoCall("none")
  /\ pc = [c \in Callers |-> "idle"]
  /\ NoCallsInProgress

LifeNext ==
  \/ StartSweeper
  \/ \E c \in Callers : CloseBegin(c)
  \/ \E c \in Callers : OnceDo(c)
  \/ \E c \in Callers : CloseSend(c)
  \/ \E c \in Callers : CloseChan(c)
  \/ LifeSetWithExp
  \/ LifeDelete
  \/ Clear
  \/ autoCleanup
  \/ Tick
  \/ Return

\* Every goroutine that can take a step takes it in the end: a caller in
\* Close, the sweeper starting, the caller of an operation returning.  The
\* ticker keeps ticking, so the sweeper, which waits for the map's lock only
\* while a call holds it, sweeps again and again.
LifeFair ==
  /\ WF_vars(StartSweeper)
  /\ \A c \in Callers : WF_vars(OnceDo(c))
  /\ \A c \in Callers : WF_vars(CloseSend(c))
  /\ \A c \in Callers : WF_vars(CloseChan(c))
  /\ WF_vars(Return)
  /\ SF_vars(autoCleanup)

LifeSpec == LifeInit /\ [][LifeNext]_vars /\ LifeFair

(***************************************************************************)
(* Get and Keys, step by step, for callers that run concurrently with each *)
(* other and with the writers.  A step is what a call does under one hold  *)
(* of the lock, or one read it makes without the lock.                     *)
(***************************************************************************)
\* The values the writers store; none of them is the zero value.
RaceValues == {ZeroValue + 1}

\* The entries of the map, read through its pointers.
View(p, es) == [k \in DOMAIN p |-> es[p[k]]]

\* The addresses the map or a call of Get points to; the others are free.
Live(p, gs) == {p[k] : k \in DOMAIN p} \cup {gs[g].entry : g \in Getters}

Collect(es, p, gs) == [a \in DOMAIN es \cap Live(p, gs) |-> es[a]]

\* &cacheEntry[T]{...}: a free address, the one the key held included.
NewAddr(p, gs, key) ==
  LET free == Addrs \ Live(remove(p, {key}), gs)
  IN CHOOSE a \in free : \A b \in free : a <= b

\* Variant: the flush resets the entry the map holds for the key.
flushed_ByKey(entry, p, key) == IF key \in DOMAIN p THEN p[key] ELSE entry
\* entry.flush() writes through the pointer Get read from the map.
flushed(entry, p, key) == entry

RaceSetWithExp ==
  \E data \in RaceValues, duration \in Durations, keys \in RaceKeyArgs :
    LET key == KeyOf(keys)
        a == NewAddr(ptr, getter, key)
        its == SetWithExpItems(items, now, data, duration, key)
    IN /\ duration >= 0
       /\ items' = its
       /\ ptr' = put(ptr, key, a)
       /\ entries' = Collect(put(entries, a, its[key]), ptr', getter)
       /\ UNCHANGED <<cacheKeySeparator, doneChan, doneOnce, cleaner, now, last,
                      options, o, constructed, pc, getter, lister>>

RaceDelete ==
  \E keys \in RaceKeyArgs :
    LET key == KeyOf(keys)
    IN /\ key \in DOMAIN items
       /\ items' = DeleteItems(items, key)
       /\ ptr' = remove(ptr, {key})
       /\ entries' = Collect(entries, ptr', getter)
       /\ UNCHANGED <<cacheKeySeparator, doneChan, doneOnce, cleaner, now, last,
                      options, o, constructed, pc, getter, lister>>

RaceClear ==
  /\ items' = ClearItems(items)
  /\ ptr' = NoPtr
  /\ entries' = Collect(entries, ptr', getter)
  /\ UNCHANGED <<cacheKeySeparator, doneChan, doneOnce, cleaner, now, last,
                 options, o, constructed, pc, getter, lister>>

\* One tick of the sweeper's ticker, recorded as autoCleanup records it.
RaceSweep ==
  /\ Idle
  /\ Sweeping(cleaner)
  /\ items' = autoCleanupItems(items, now)
  /\ ptr' = remove(ptr, DOMAIN items \ DOMAIN items')
  /\ entries' = Collect(entries, ptr', getter)
  /\ last' = Call("autoCleanup", << >>, ZeroValue, 0,
                  \E k \in DOMAIN items : isExpired(items[k], now),
                  ZeroValue, FALSE, EmptyBag, ErrNil)
  /\ UNCHANGED <<cacheKeySeparator, doneChan, doneOnce, cleaner, now,
                 options, o, constructed, pc, getter, lister>>

\* Get, under the read lock: entry, ok := c.items[key]; without an entry the
\* call returns ErrNotFound.
GetLookup(g) ==
  /\ getter[g].pc \in {"idle", "returned"}
  /\ \E keys \in RaceKeyArgs :
       LET key == KeyOf(keys)
       IN getter' = [getter EXCEPT ![g] =
            IF key \in DOMAIN ptr
              THEN [pc |-> "check", key |-> key, entry |-> ptr[key],
                    val |-> ZeroValue, err |-> ErrNil]
              ELSE [pc |-> "returned", key |-> key, entry |-> NilEntry,
                    val |-> generateEmptyData, err |-> ErrNotFound]]
  /\ entries' = Collect(entries, ptr, getter')
  /\ UNCHANGED <<items, cacheKeySeparator, doneChan, doneOnce, cleaner, now, last,
                 options, o, constructed, pc, ptr, lister>>

\* Get, without the lock: entry.isExpired().
GetCheck(g) ==
  /\ getter[g].pc = "check"
  /\ getter' = [getter EXCEPT ![g].pc =
                  IF isExpired(entries[getter[g].entry], now) THEN "flush" ELSE "read"]
  /\ UNCHANGED <<items, cacheKeySeparator, doneChan, doneOnce, cleaner, now, last,
                 options, o, constructed, pc, entries, ptr, lister>>

\* Get, under the write lock: entry.flush(), and the call returns ErrExpired.
GetFlush(g) ==
  /\ getter[g].pc = "flush"
  /\ entries' = [entries EXCEPT ![flushed(getter[g].entry, ptr, getter[g].key)] = flush(@)]
  /\ items' = View(ptr, entries')
  /\ getter' = [getter EXCEPT ![g].pc = "returned",
                              ![g].val = generateEmptyData,
                              ![g].err = ErrExpired]
  /\ UNCHANGED <<cacheKeySeparator, doneChan, doneOnce, cleaner, now, last,
                 options, o, constructed, pc, ptr, lister>>

\* Get, without the lock: return entry.Data, nil.
GetRead(g) ==
  /\ getter[g].pc = "read"
  /\ getter' = [getter EXCEPT ![g].pc = "returned",
                              ![g].val = entries[getter[g].entry].Data,
                              ![g].err = ErrNil]
  /\ UNCHANGED <<items, cacheKeySeparator, doneChan, doneOnce, cleaner, now, last,
                 options, o, constructed, pc, entries, ptr, lister>>

\* Keys, without the lock: make([][]string, len(c.items)).
KeysLen ==
  /\ lister.pc \in {"idle", "returned"}
  /\ lister' = [pc |-> "scan", n |-> Cardinality(DOMAIN items),
                list |-> EmptyBag, unfilled |-> 0]
  /\ UNCHANGED <<items, cacheKeySeparator, doneChan, doneOnce, cleaner, now, last,
                 options, o, constructed, pc, entries, ptr, getter>>

\* Keys, under the read lock: the loop over the map fills keys[i]; with more
\* keys than the slice has elements the index is out of range and the call
\* panics, with fewer the elements left over stay nil.
KeysScan ==
  /\ lister.pc = "scan"
  /\ lister' = IF Cardinality(DOMAIN items) > lister.n
                 THEN [lister EXCEPT !.pc = "panicked"]
                 ELSE [lister EXCEPT !.pc = "returned",
                                     !.list = KeysResult(items, cacheKeySeparator),
                                     !.unfilled = lister.n - Cardinality(DOMAIN items)]
  /\ UNCHANGED <<items, cacheKeySeparator, doneChan, doneOnce, cleaner, now, last,
                 options, o, constructed, pc, entries, ptr, getter>>

\* The cache the concurrent callers share has its sweeper running.
RaceInit == Init /\ Sweeping(cleaner)

\* The writers, and time.
WriterNext ==
  \/ RaceSetWithExp
  \/ RaceDelete
  \/ RaceClear
  \/ RaceSweep
  \/ Tick
  \/ Return

\* Calls of Get among the writers.
GetRaceNext ==
  \/ WriterNext
  \/ \E g \in Getters : GetLookup(g)
  \/ \E g \in Getters : GetCheck(g)
  \/ \E g \in Getters : GetFlush(g)
  \/ \E g \in Getters : GetRead(g)

GetRaceSpec == RaceInit /\ [][GetRaceNext]_vars

\* A call of Keys among the writers.
KeysRaceNext ==
  \/ WriterNext
  \/ KeysLen
  \/ KeysScan

KeysRaceSpec == RaceInit /\ [][KeysRaceNext]_vars

(***************************************************************************)
(* Properties.                                                             *)
(*                                                                         *)
(* A step that is a call of operation op leads to a state whose last.op is *)
(* op; in the action properties below last' therefore names the operation  *)
(* of the step, items and now are the map and the clock the call found,    *)
(* and items' is the map it left.                                          *)
(***************************************************************************)
Res(val, err) == [val |-> val, err |-> err]

Passed(ce, t) == ce.Exp # ZeroTime /\ ce.Exp < t

\* The call recorded in l writes or removes the encoded key k.
Touches(l, k) ==
  \/ l.op \in {"Set", "SetWithExp", "Delete"} /\ KeyOf(l.keys) = k
  \/ l.op = "Clear"

\* C1: Set(v, k...) or SetWithExp(v, d, k...) followed immediately by
\* Get(k...) returns (v, no error), also when the key was already present:
\* the Get returns the value of the most recent Set/SetWithExp on the key.
C1_SetThenGet ==
  last.op \in {"Set", "SetWithExp"} =>
    /\ GetResult(items, now, KeyOf(last.keys)) = Res(last.data, ErrNil)
    /\ GetItems(items, now, KeyOf(last.keys)) = items

C1_Witness ==
  /\ last.op = "SetWithExp"
  /\ last.duration > 0
  /\ last.found
  /\ last.data # ZeroValue

\* C2: Get(k...) returns (zero, NotFound) if k has no entry, (zero, Expired)
\* if k has an entry whose expiration instant has passed, and (stored
\* value, no error) otherwise.
C2_GetClassifies ==
  [][last'.op = "Get" =>
       LET key == KeyOf(last'.keys)
       IN IF key \notin DOMAIN items
            THEN last'.val = ZeroValue /\ last'.err = ErrNotFound
            ELSE IF Passed(items[key], now)
              THEN last'.val = ZeroValue /\ last'.err = ErrExpired
              ELSE last'.val = items[key].Data /\ last'.err = ErrNil]_vars

\* A Get at the expiration instant itself: the instant has not passed yet.
C2_Witness ==
  /\ last.op = "Get"
  /\ last.err = ErrNil
  /\ last.found
  /\ items[KeyOf(last.keys)].Exp = now

\* C3: an expired entry stays present until a Delete of its key, a Clear or
\* a cleanup sweep removes it; as long as it is not overwritten either,
\* IsExist is true, the key is listed by Keys and Get yields Expired, and a
\* Get that returned Expired for it only reset its value to zero in place.
C3_ExpiredStaysPresent ==
  [][\A k \in DOMAIN items :
       (Passed(items[k], now) /\ last'.op # "autoCleanup"
          /\ ~(last'.op = "Delete" /\ KeyOf(last'.keys) = k) /\ last'.op # "Clear") =>
         /\ k \in DOMAIN items'
         /\ ~Touches(last', k) =>
              /\ IsExistResult(items', k)
              /\ BagIn(deGenerateCacheKey(cacheKeySeparator, k),
                       KeysResult(items', cacheKeySeparator))
              /\ items'[k].Exp = items[k].Exp
              /\ GetResult(items', now', k) = Res(ZeroValue, ErrExpired)
              /\ (last'.op = "Get" /\ KeyOf(last'.keys) = k) =>
                    (last'.err = ErrExpired /\ items'[k] = flush(items[k]))]_vars

\* The key of a Get that returned Expired is still there, its value reset.
C3_Witness ==
  /\ last.op = "Get"
  /\ last.err = ErrExpired
  /\ KeyOf(last.keys) \in DOMAIN items
  /\ items[KeyOf(last.keys)].Data = ZeroValue
  /\ Passed(items[KeyOf(last.keys)], now)

\* C4: TTL(k...) returns (0, NotFound) if k is absent, (-1, no error) if the
\* entry has no expiration, (0, Expired) if the expiration instant minus the
\* current time is <= 0, and otherwise that difference with no error; TTL
\* never changes the store.
C4_TTL ==
  [][last'.op = "TTL" =>
       /\ items' = items
       /\ LET key == KeyOf(last'.keys)
          IN IF key \notin DOMAIN items
               THEN last'.val = 0 /\ last'.err = ErrNotFound
               ELSE IF items[key].Exp = ZeroTime
                 THEN last'.val = 0 - 1 /\ last'.err = ErrNil
                 ELSE IF items[key].Exp - now <= 0
                   THEN last'.val = 0 /\ last'.err = ErrExpired
                   ELSE /\ last'.val = items[key].Exp - now
                        /\ last'.val > 0
                        /\ last'.err = ErrNil]_vars

\* A TTL call at the expiration instant itself: the remaining time is 0.
C4_Witness ==
  /\ last.op = "TTL"
  /\ last.err = ErrExpired
  /\ last.found
  /\ items[KeyOf(last.keys)].Exp = now

\* C5: an entry stored with Set, or with SetWithExp and a duration <= 0,
\* has no expiration instant, and an entry without expiration instant stays
\* as it is through every step that is not a Set/SetWithExp/Delete of its
\* key or a Clear (cleanup sweeps and the passage of time included): Get
\* returns its value, IsExpired false and TTL -1, all without error.
C5_PermanentNeverExpires ==
  [][/\ (last'.op \in {"Set", "SetWithExp"} /\ last'.duration <= 0) =>
          /\ KeyOf(last'.keys) \in DOMAIN items'
          /\ items'[KeyOf(last'.keys)] = [Data |-> last'.data, Exp |-> ZeroTime]
     /\ \A k \in DOMAIN items :
          (items[k].Exp = ZeroTime /\ ~Touches(last', k)) =>
            /\ k \in DOMAIN items'
            /\ items'[k] = items[k]
            /\ GetResult(items', now', k) = Res(items[k].Data, ErrNil)
            /\ IsExpiredResult(items', now', k) = Res(FALSE, ErrNil)
            /\ TTLResult(items', now', k) = Res(0 - 1, ErrNil)]_vars

\* A sweep has run, later than the creation of the cache, and left a
\* permanent entry in place.
C5_Witness ==
  /\ last.op = "autoCleanup"
  /\ now > 1
  /\ \E k \in DOMAIN items : items[k].Exp = ZeroTime /\ items[k].Data # ZeroValue

\* C6: IsExpired(k...) returns (false, NotFound) if k is absent, otherwise
\* (true, no error) exactly when the expiration instant has passed and
\* (false, no error) when it has not; it never returns the error Expired
\* and it leaves the store unchanged.
C6_IsExpired ==
  [][last'.op = "IsExpired" =>
       /\ items' = items
       /\ last'.err # ErrExpired
       /\ LET key == KeyOf(last'.keys)
          IN IF key \notin DOMAIN items
               THEN last'.flag = FALSE /\ last'.err = ErrNotFound
               ELSE /\ last'.flag = Passed(items[key], now)
                    /\ last'.err = ErrNil]_vars

C6_Witness ==
  /\ last.op = "IsExpired"
  /\ last.flag
  /\ last.err = ErrNil
  /\ items[KeyOf(last.keys)].Data # ZeroValue

\* C7: Delete(k...) on an absent key returns NotFound and leaves the store
\* unchanged; on a present key, expired or not, it returns no error and
\* removes exactly that key (IsExist is then false and Get NotFound),
\* leaving every other key and its entry unchanged.
C7_Delete ==
  [][last'.op = "Delete" =>
       LET key == KeyOf(last'.keys)
       IN IF key \notin DOMAIN items
            THEN last'.err = ErrNotFound /\ items' = items
            ELSE /\ last'.err = ErrNil
                 /\ DOMAIN items' = DOMAIN items \ {key}
                 /\ \A k \in DOMAIN items' : items'[k] = items[k]
                 /\ ~IsExistResult(items', key)
                 /\ GetResult(items', now', key) = Res(ZeroValue, ErrNotFound)]_vars

\* A Delete that removed a key and left another one.
C7_Witness ==
  /\ last.op = "Delete"
  /\ last.err = ErrNil
  /\ DOMAIN items # {}

\* C8: after Clear the store is empty whatever it held: Keys is empty and
\* for every key IsExist is false and Get, Delete, IsExpired and TTL return
\* NotFound; the store stays empty until a Set or SetWithExp.
C8_Clear ==
  [][/\ last'.op = "Clear" =>
          /\ DOMAIN items' = {}
          /\ KeysResult(items', cacheKeySeparator) = EmptyBag
          /\ \A keys \in KeyArgs :
                /\ ~IsExistResult(items', KeyOf(keys))
                /\ GetResult(items', now', KeyOf(keys)).err = ErrNotFound
                /\ DeleteResult(items', KeyOf(keys)) = ErrNotFound
                /\ IsExpiredResult(items', now', KeyOf(keys)).err = ErrNotFound
                /\ TTLResult(items', now', KeyOf(keys)).err = ErrNotFound
     /\ (DOMAIN items = {} /\ last'.op \notin {"Set", "SetWithExp"}) =>
          DOMAIN items' = {}]_vars

\* A Clear of a store that held entries.
C8_Witness ==
  /\ last.op = "Clear"
  /\ last.found
  /\ DOMAIN items = {}

\* The calls that take key parts.
KeyedOps == {"Set", "SetWithExp", "Get", "Delete", "IsExist", "IsExpired", "TTL"}

\* C9: the key codec round-trips: for every sequence p of key parts,
\* deGenerateCacheKey(sep, generateCacheKey(sep, p...)) equals p.
C9_RoundTrip ==
  last.op \in KeyedOps =>
    deGenerateCacheKey(cacheKeySeparator,
                       generateCacheKey(cacheKeySeparator, last.keys)) = last.keys

\* C10: two different part sequences have different encoded keys, and a
\* Set, SetWithExp or Delete on one never changes what Get, IsExist,
\* IsExpired and TTL return for the other.
C10_KeysIsolated ==
  [][last'.op \in {"Set", "SetWithExp", "Delete"} =>
       \A q \in KeyArgs \ {last'.keys} :
         /\ KeyOf(q) # KeyOf(last'.keys)
         /\ GetResult(items', now', KeyOf(q)) = GetResult(items, now, KeyOf(q))
         /\ IsExistResult(items', KeyOf(q)) = IsExistResult(items, KeyOf(q))
         /\ IsExpiredResult(items', now', KeyOf(q)) = IsExpiredResult(items, now, KeyOf(q))
         /\ TTLResult(items', now', KeyOf(q)) = TTLResult(items, now, KeyOf(q))]_vars

\* The map keys whose decoded parts start with the parts q.
Matching(its, q) ==
  {k \in DOMAIN its :
     LET d == deGenerateCacheKey(cacheKeySeparator, k)
     IN Len(d) >= Len(q) /\ SubSeq(d, 1, Len(q)) = q}

\* C11: for a non-empty prefix q, KeysFromPrefix(q...) returns, each exactly
\* once, the decoded parts of every stored key that has at least len(q)
\* parts of which the first len(q) equal q, and nothing else; it changes
\* nothing in the store.
C11_KeysFromPrefix ==
  [][(last'.op = "KeysFromPrefix" /\ Len(last'.keys) > 0) =>
       LET M == Matching(items, last'.keys)
       IN /\ BagToSet(last'.list) = {deGenerateCacheKey(cacheKeySeparator, k) : k \in M}
          /\ \A k \in M :
               CopiesIn(deGenerateCacheKey(cacheKeySeparator, k), last'.list) =
                 Cardinality({k2 \in M : deGenerateCacheKey(cacheKeySeparator, k2)
                                           = deGenerateCacheKey(cacheKeySeparator, k)})
          /\ BagCardinality(last'.list) = Cardinality(M)
          /\ items' = items]_vars

\* A prefix equal to one stored key and a proper prefix of another: both
\* keys are returned.
C11_Witness ==
  /\ last.op = "KeysFromPrefix"
  /\ last.keys = << <<"a">> >>
  /\ BagIn(<< <<"a">> >>, last.list)
  /\ BagIn(<< <<"a">>, <<"a">> >>, last.list)

\* C12 as claimed: KeysFromPrefix() without key parts returns the same set
\* of keys as Keys().
C12_AllKeys ==
  (last.op = "KeysFromPrefix" /\ Len(last.keys) = 0) =>
    BagToSet(last.list) = BagToSet(KeysResult(items, cacheKeySeparator))

\* C12 amended: KeysFromPrefix() without key parts returns a sub-list of
\* Keys() that holds nothing but the zero-part key, once, and holds it
\* exactly when the entry of the zero-part key is stored and not expired;
\* it is the same set of keys as Keys() only when no other key is readable.
C12_OnlyZeroPartKey ==
  [][(last'.op = "KeysFromPrefix" /\ Len(last'.keys) = 0) =>
       /\ last'.list \sqsubseteq KeysResult(items, cacheKeySeparator)
       /\ BagToSet(last'.list) \subseteq {<< >>}
       /\ BagCardinality(last'.list) <= 1
       /\ BagIn(<< >>, last'.list) <=>
            (KeyOf(<< >>) \in DOMAIN items /\ ~Passed(items[KeyOf(<< >>)], now))]_vars

\* KeysFromPrefix() returned the zero-part key alone although another key
\* is stored.
C12_Witness ==
  /\ last.op = "KeysFromPrefix"
  /\ Len(last.keys) = 0
  /\ last.list = SetToBag({<< >>})
  /\ Cardinality(DOMAIN items) = 2

\* C13: KeysFromPrefix() without key parts returns exactly the zero-part key
\* when a value is stored under the zero-part key, whatever else is stored,
\* and an empty list when no zero-part key is stored.
C13_ZeroPartKeyListed ==
  [][(last'.op = "KeysFromPrefix" /\ Len(last'.keys) = 0) =>
       IF KeyOf(<< >>) \in DOMAIN items
         THEN last'.list = SetToBag({<< >>})
         ELSE last'.list = EmptyBag]_vars

\* C14: Keys() returns the part sequences of the keys present, each once: a
\* part sequence p is in Keys() iff IsExist(p...) is true, and there are as
\* many entries as distinct keys set and not removed.
C14_KeysAreThePresentKeys ==
  last.op = "Keys" =>
    /\ \A p \in KeyArgs :
         BagIn(p, last.list) <=> IsExistResult(items, KeyOf(p))
    /\ BagCardinality(last.list) = Cardinality(DOMAIN items)
    /\ BagCardinality(last.list) =
         Cardinality({p \in KeyArgs : IsExistResult(items, KeyOf(p))})

\* C19: a cleanup tick is one step that removes exactly the entries expired
\* at that moment: right after it no expired entry is present, and every
\* entry that is permanent or not yet expired is still there, unchanged.
C19_SweepRemovesExactlyExpired ==
  [][last'.op = "autoCleanup" =>
       /\ \A k \in DOMAIN items' : ~Passed(items'[k], now')
       /\ \A k \in DOMAIN items :
            ~Passed(items[k], now) => (k \in DOMAIN items' /\ items'[k] = items[k])
       /\ DOMAIN items' \subseteq DOMAIN items
       /\ now' = now]_vars

\* A sweep that found an expired entry and an entry at its expiration
\* instant, and left the latter.
C19_Witness ==
  /\ last.op = "autoCleanup"
  /\ last.found
  /\ \E k \in DOMAIN items : items[k].Exp = now

\* C18: GetsFromPrefix(q...) returns an error exactly when q matches no
\* stored key; when a key matches it returns no error and the values of the
\* matching keys (those Get can read), and for the empty prefix the values
\* of all stored keys.
C18_GetsFromPrefix ==
  [][last'.op = "GetsFromPrefix" =>
       LET M == Matching(items, last'.keys)
           readable == {k \in M : ~Passed(items[k], now)}
       IN /\ (last'.err # ErrNil) <=> (M = {})
          /\ Len(last'.keys) = 0 => M = DOMAIN items
          /\ BagCardinality(last'.vals) = Cardinality(readable)
          /\ \A v \in Values :
               CopiesIn(v, last'.vals) = Cardinality({k \in readable : items[k].Data = v})]_vars

\* A prefix that matches two keys with different values: both are returned.
C18_Witness ==
  /\ last.op = "GetsFromPrefix"
  /\ last.keys = << <<"a">> >>
  /\ last.err = ErrNil
  /\ BagToSet(last.vals) = Values

\* A prefix that matches only an expired key: no value and no error.
C18_WitnessNoValue ==
  /\ last.op = "GetsFromPrefix"
  /\ last.err = ErrNil
  /\ last.vals = EmptyBag

\* The step is a call of operation op: Close's steps and the sweeper's start
\* leave the record of the last call as it is.
Calls(op) == last.op = "none" /\ last'.op = op

\* The store keys of LifeKeyArgs.
LifeKeys == {generateCacheKey(sep, keys) : sep \in Separators, keys \in LifeKeyArgs}

\* C15: Close never panics and always returns, for sequential and for
\* concurrent callers, with a sweeper and without; a call that finds the
\* Once done changes nothing.
C15_CloseReturns ==
  /\ [](\A c \in Callers : pc[c] # "panicked")
  /\ [][\A c \in Callers :
          (pc[c] = "once" /\ pc'[c] = "returned" /\ doneOnce)
            => UNCHANGED <<items, doneChan, doneOnce, cleaner>>]_vars
  /\ \A c \in Callers : (pc[c] = "once") ~> (pc[c] = "returned")

\* Both callers have returned from Close on a cache with a sweeper.
C15_Witness ==
  /\ \A c \in Callers : pc[c] = "returned"
  /\ doneChan = "closed"
  /\ cleaner = "stopped"

\* C16: while the sweeper runs and Close has not stopped it, an entry whose
\* expiration instant has passed is removed in the end (unless it is set
\* again), and a sweep leaves no such key present or listed by Keys.
C16_ExpiredEventuallySwept ==
  /\ [][Calls("autoCleanup") =>
          \A k \in DOMAIN items :
             Passed(items[k], now) =>
               /\ ~IsExistResult(items', k)
               /\ ~BagIn(deGenerateCacheKey(cacheKeySeparator, k),
                         KeysResult(items', cacheKeySeparator))]_vars
  /\ \A k \in LifeKeys :
       (cleaner \in {"starting", "running"} /\ k \in DOMAIN items /\ Passed(items[k], now))
         ~> (k \notin DOMAIN items \/ ~Passed(items[k], now) \/ cleaner = "stopped")

\* A sweep has removed an expired entry of a cache on which Close was never
\* called.
C16_Witness ==
  /\ last.op = "autoCleanup"
  /\ last.found
  /\ items = NoItems
  /\ doneChan = "open"
  /\ \A c \in Callers : pc[c] = "idle"

\* C20: the sweeper goes from starting to running to stopped and nowhere
\* else, there is none without auto-cleanup, it stops only in the step in
\* which a caller of Close hands it the signal, which happens at most once;
\* when a Close has returned the sweeper has stopped, no sweep runs once it
\* has stopped, and from then on only Delete and Clear remove a key.
C20_SweeperLifecycle ==
  /\ [](doneChan = "nil" <=> cleaner = "idle")
  /\ []((doneChan # "nil" /\ \E c \in Callers : pc[c] = "returned")
          => cleaner = "stopped")
  /\ [][/\ cleaner' # cleaner =>
             \/ cleaner = "starting" /\ cleaner' = "running"
             \/ /\ cleaner = "running" /\ cleaner' = "stopped"
                /\ \E c \in Callers : pc[c] = "send" /\ pc'[c] = "close"
        /\ (\E c \in Callers : pc[c] = "send" /\ pc'[c] # "send")
             => cleaner = "running" /\ cleaner' = "stopped"
        /\ Calls("autoCleanup") => cleaner = "running"
        /\ (cleaner = "stopped" /\ ~(DOMAIN items \subseteq DOMAIN items'))
             => Calls("Delete") \/ Calls("Clear")]_vars

\* Close has returned and an entry that expired is still present.
C20_Witness ==
  /\ cleaner = "stopped"
  /\ \E c \in Callers : pc[c] = "returned"
  /\ Idle
  /\ \E k \in DOMAIN items : Passed(items[k], now)

\* C17: an interval that is not positive is normalised to one minute, a
\* positive one is used as it is, and the sweeper's start never panics.
C17_NonPositiveNormalised ==
  /\ cleaner # "panicked"
  /\ (last.op = "Apply" /\ last.flag)
       => o.AutoCleanupInterval = IF last.duration <= 0 THEN Minute ELSE last.duration

\* C24: KeysFromPrefix, for every prefix and the empty one too, leaves the
\* map as it is, and lists every matching key that is expired and still
\* stored, as IsExist reports it.
C24_KeysFromPrefixReadOnly ==
  [][last'.op = "KeysFromPrefix" =>
       /\ items' = items
       /\ \A k \in Matching(items, last'.keys) :
            (IsExistResult(items, k) /\ Passed(items[k], now))
              => BagIn(deGenerateCacheKey(cacheKeySeparator, k), last'.list)]_vars

\* C25: at every instant, the expiration instant included, Get, IsExpired
\* and TTL agree on whether a present key with an expiration is expired.
C25_ExpiryAgrees ==
  \A k \in DOMAIN items :
    items[k].Exp # ZeroTime =>
      /\ (GetResult(items, now, k).err = ErrExpired) <=> IsExpiredResult(items, now, k).val
      /\ IsExpiredResult(items, now, k).val <=> (TTLResult(items, now, k).err = ErrExpired)

\* The map and its pointers tell the same entries.
ItemsAreEntries == items = View(ptr, entries)

\* C21: when the entry a Get is about to flush is no longer the one the map
\* holds for the key (the key was deleted, cleared, swept or set again in
\* between), the flush leaves the map as the writer left it: an absent key
\* stays absent and a fresh value is not reset; no flush adds or removes a
\* key.
C21_FlushToleratesWriter ==
  [][\A g \in Getters :
       (getter[g].pc = "flush" /\ getter'[g].pc = "returned") =>
         /\ DOMAIN items' = DOMAIN items
         /\ (getter[g].key \notin DOMAIN ptr \/ ptr[getter[g].key] # getter[g].entry)
              => items' = items
         /\ getter'[g].err = ErrExpired]_vars

\* A Get has flushed and returned ErrExpired for a key that was set again in
\* between: the map holds the fresh value.
C21_Witness ==
  \E g \in Getters :
    /\ getter[g].pc = "returned"
    /\ getter[g].err = ErrExpired
    /\ getter[g].key \in DOMAIN ptr
    /\ ptr[getter[g].key] # getter[g].entry
    /\ items[getter[g].key].Data \in RaceValues

\* A Get has flushed and returned ErrExpired for a key that was removed in
\* between: the key is absent.
C21_WitnessRemoved ==
  \E g \in Getters :
    /\ getter[g].pc = "returned"
    /\ getter[g].err = ErrExpired
    /\ getter[g].key \notin DOMAIN items

\* C22: a Get that returns no error returns a value that was stored under
\* its key, never the zero value of a flush.
C22_GetReturnsStoredValue ==
  \A g \in Getters :
    (getter[g].pc = "returned" /\ getter[g].err = ErrNil)
      => getter[g].val \in RaceValues

\* C23: Keys never indexes past the end of its result, and the list it
\* returns has no unfilled element and as many elements as it counted keys.
C23_KeysSnapshot ==
  /\ lister.pc # "panicked"
  /\ lister.pc = "returned" =>
       /\ lister.unfilled = 0
       /\ BagCardinality(lister.list) = lister.n

====
